---- MODULE Spec2Model ----
(***************************************************************************)
(* Model of tutorial6_uniforms/src/camera.rs: the free-fly Camera and its  *)
(* CameraController (process_event / update_camera).                       *)
(*                                                                         *)
(* Numbers.  The f32 quantities of the program are modelled in fixed       *)
(* point:                                                                  *)
(*   - angles (yaw, pitch, fovy) are whole degrees, so 2*PI is 360,        *)
(*     89f32.to_radians() is 89, 1f32.to_radians() is 1 and                *)
(*     120f32.to_radians() is 120;                                         *)
(*   - lengths and vector components are ten-thousandths (Scale), so the   *)
(*     unit vector (1,0,0) is <<10000,0,0>> and the threshold 0.001 is 10; *)
(*   - mouse deltas are whole counts, and the sensitivities are angle per  *)
(*     count.                                                              *)
(* All inputs are finite numbers (no NaN, no infinity).                    *)
(***************************************************************************)
EXTENDS Integers, Sequences, FiniteSets, TLC

VARIABLES camera, controller, last_event, returned, panicked, calls, frame,
          last_key, motion_sum, scroll_sum

vars == <<camera, controller, last_event, returned, panicked, calls, frame,
          last_key, motion_sum, scroll_sum>>

-----------------------------------------------------------------------------
(* Bounds of the exploration.                                              *)

\* number of process_event calls explored
MaxEvents == 3
\* number of update_camera calls explored
MaxFrames == 2

-----------------------------------------------------------------------------
(* Program constants.                                                      *)

TwoPi == 360
PitchLimit == 89
FovyMin == 1
FovyMax == 120

-----------------------------------------------------------------------------
(* f32 arithmetic in fixed point.                                          *)

SinTable ==
  << 0, 175, 349, 523, 698, 872, 1045, 1219, 1392, 1564, 1736, 1908,
     2079, 2250, 2419, 2588, 2756, 2924, 3090, 3256, 3420, 3584, 3746,
     3907, 4067, 4226, 4384, 4540, 4695, 4848, 5000, 5150, 5299, 5446,
     5592, 5736, 5878, 6018, 6157, 6293, 6428, 6561, 6691, 6820, 6947,
     7071, 7193, 7314, 7431, 7547, 7660, 7771, 7880, 7986, 8090, 8192,
     8290, 8387, 8480, 8572, 8660, 8746, 8829, 8910, 8988, 9063, 9135,
     9205, 9272, 9336, 9397, 9455, 9511, 9563, 9613, 9659, 9703, 9744,
     9781, 9816, 9848, 9877, 9903, 9925, 9945, 9962, 9976, 9986, 9994,
     9998, 10000 >>

\* 1.0 in fixed point: the sine of 90 degrees
Scale == SinTable[91]

\* the threshold 0.001 of update_camera
LengthEps == Scale \div 1000

Abs(a) == IF a < 0 THEN -a ELSE a

\* division rounding to nearest, symmetric about zero
RoundDiv(a, b) ==
  IF a >= 0 THEN (2 * a + b) \div (2 * b) ELSE -((2 * (-a) + b) \div (2 * b))

\* product of two fixed-point numbers
Mul(a, b) == RoundDiv(a * b, Scale)

\* Rust's % on f32 (fmod): truncated remainder, the sign of the dividend
rem_f32(a, b) == IF a >= 0 THEN a % b ELSE -((-a) % b)

\* f32::clamp
clamp(x, min, max) == IF x < min THEN min ELSE IF x > max THEN max ELSE x

\* f32::sin of an angle in degrees, in ten-thousandths
sin(a) ==
  LET r == a % 360
  IN  IF r <= 90 THEN SinTable[r + 1]
      ELSE IF r <= 180 THEN SinTable[180 - r + 1]
      ELSE IF r <= 270 THEN -SinTable[r - 180 + 1]
      ELSE -SinTable[360 - r + 1]

\* f32::cos
cos(a) == sin(a + 90)

\* f32::asin: the angle in [-90, 90] whose sine is nearest to s
asin(s) ==
  CHOOSE d \in -90..90 :
    \A e \in -90..90 :
      \/ Abs(sin(d) - s) < Abs(sin(e) - s)
      \/ Abs(sin(d) - s) = Abs(sin(e) - s) /\ Abs(d) <= Abs(e)

\* f32::atan2(z, x): the angle in (-180, 180] of the direction (x, z);
\* atan2(0, 0) is 0
atan2(z, x) ==
  IF x = 0 /\ z = 0 THEN 0
  ELSE CHOOSE d \in -179..180 :
         \A e \in -179..180 :
           \/ x * cos(d) + z * sin(d) > x * cos(e) + z * sin(e)
           \/ /\ x * cos(d) + z * sin(d) = x * cos(e) + z * sin(e)
              /\ Abs(d) <= Abs(e)

RECURSIVE SqrtSearch(_, _, _)
SqrtSearch(n, lo, hi) ==
  IF lo >= hi THEN lo
  ELSE LET mid == (lo + hi + 1) \div 2
       IN  IF mid * mid <= n THEN SqrtSearch(n, mid, hi)
           ELSE SqrtSearch(n, lo, mid - 1)

\* f32::sqrt, rounded to nearest
Sqrt(n) ==
  LET f == SqrtSearch(n, 0, IF n < 46340 THEN n ELSE 46340)
  IN  IF n - f * f > f THEN f + 1 ELSE f

-----------------------------------------------------------------------------
(* glm vectors.                                                            *)

vec3(x, y, z) == <<x, y, z>>

VAdd(a, b) == <<a[1] + b[1], a[2] + b[2], a[3] + b[3]>>

VSub(a, b) == <<a[1] - b[1], a[2] - b[2], a[3] - b[3]>>

VScale(s, a) == <<Mul(s, a[1]), Mul(s, a[2]), Mul(s, a[3])>>

cross(a, b) ==
  << Mul(a[2], b[3]) - Mul(a[3], b[2]),
     Mul(a[3], b[1]) - Mul(a[1], b[3]),
     Mul(a[1], b[2]) - Mul(a[2], b[1]) >>

length(a) == Sqrt(a[1] * a[1] + a[2] * a[2] + a[3] * a[3])

normalize(a) ==
  LET l == length(a)
  IN  <<RoundDiv(a[1] * Scale, l), RoundDiv(a[2] * Scale, l),
        RoundDiv(a[3] * Scale, l)>>

-----------------------------------------------------------------------------
(* Camera.                                                                 *)

\* Camera::point_at
point_at(self, target) ==
  LET dir == normalize(VSub(target, self.position))
  IN  [self EXCEPT !.yaw = atan2(dir[3], dir[1]),
                   !.pitch = asin(dir[2])]

\* Camera::new
Camera_new(position, world_up, target, aspect, fovy, znear, zfar) ==
  point_at([position |-> position, world_up |-> world_up,
            yaw |-> 0, pitch |-> 0, aspect |-> aspect, fovy |-> fovy,
            znear |-> znear, zfar |-> zfar], target)

\* Camera::get_front
get_front(self) ==
  vec3(Mul(cos(self.yaw), cos(self.pitch)),
       sin(self.pitch),
       Mul(sin(self.yaw), cos(self.pitch)))

-----------------------------------------------------------------------------
(* CameraController.                                                       *)

\* CameraController::new
CameraController_new(move_speed, mouse_sensitivity, zoom_sensitivity) ==
  [move_speed |-> move_speed,
   mouse_sensitivity |-> mouse_sensitivity,
   zoom_sensitivity |-> zoom_sensitivity,
   is_forward_pressed |-> FALSE,
   is_backward_pressed |-> FALSE,
   is_left_pressed |-> FALSE,
   is_right_pressed |-> FALSE,
   is_up_pressed |-> FALSE,
   is_down_pressed |-> FALSE,
   mouse_delta |-> <<0, 0>>,
   mouse_scroll_delta |-> 0]

(* DeviceEvent values.  keycode is the Option<VirtualKeyCode> of a Key     *)
(* event ("None" when the key has no virtual key code, "Q" stands for any  *)
(* key the controller does not bind); payload is the MouseScrollDelta      *)
(* variant; "Added" stands for every other DeviceEvent kind.               *)
Key(keycode, state) ==
  [kind |-> "Key", keycode |-> keycode, state |-> state,
   dx |-> 0, dy |-> 0, payload |-> "-"]

MouseMotion(dx, dy) ==
  [kind |-> "MouseMotion", keycode |-> "-", state |-> "-",
   dx |-> dx, dy |-> dy, payload |-> "-"]

MouseWheel(payload, dx, dy) ==
  [kind |-> "MouseWheel", keycode |-> "-", state |-> "-",
   dx |-> dx, dy |-> dy, payload |-> payload]

Added ==
  [kind |-> "Added", keycode |-> "-", state |-> "-",
   dx |-> 0, dy |-> 0, payload |-> "-"]

BoundKeys == {"W", "A", "S", "D", "Space", "LControl"}

\* key_arm with the release ignored: a bound key sets its flag on every key
\* event
key_arm_sticky(self, keycode, is_pressed) ==
  CASE keycode = "W" -> [self EXCEPT !.is_forward_pressed = TRUE]
    [] keycode = "A" -> [self EXCEPT !.is_left_pressed = TRUE]
    [] keycode = "S" -> [self EXCEPT !.is_backward_pressed = TRUE]
    [] keycode = "D" -> [self EXCEPT !.is_right_pressed = TRUE]
    [] keycode = "Space" -> [self EXCEPT !.is_up_pressed = TRUE]
    [] keycode = "LControl" -> [self EXCEPT !.is_down_pressed = TRUE]
    [] OTHER -> self

\* key_arm with a default arm that writes a flag
key_arm_default_writes(self, keycode, is_pressed) ==
  CASE keycode = "W" -> [self EXCEPT !.is_forward_pressed = is_pressed]
    [] keycode = "A" -> [self EXCEPT !.is_left_pressed = is_pressed]
    [] keycode = "S" -> [self EXCEPT !.is_backward_pressed = is_pressed]
    [] keycode = "D" -> [self EXCEPT !.is_right_pressed = is_pressed]
    [] keycode = "Space" -> [self EXCEPT !.is_up_pressed = is_pressed]
    [] keycode = "LControl" -> [self EXCEPT !.is_down_pressed = is_pressed]
    [] OTHER -> [self EXCEPT !.is_forward_pressed = is_pressed]

\* the match on keycode in process_event: the controller after the arm
\* taken (unchanged in the default arm)
key_arm(self, keycode, is_pressed) ==
  CASE keycode = "W" -> [self EXCEPT !.is_forward_pressed = is_pressed]
    [] keycode = "A" -> [self EXCEPT !.is_left_pressed = is_pressed]
    [] keycode = "S" -> [self EXCEPT !.is_backward_pressed = is_pressed]
    [] keycode = "D" -> [self EXCEPT !.is_right_pressed = is_pressed]
    [] keycode = "Space" -> [self EXCEPT !.is_up_pressed = is_pressed]
    [] keycode = "LControl" -> [self EXCEPT !.is_down_pressed = is_pressed]
    [] OTHER -> self

\* motion_arm with = in place of +=
motion_arm_overwrite(self, dx, dy) ==
  [self EXCEPT !.mouse_delta = <<dx, dy>>]

\* the DeviceEvent::MouseMotion arm
motion_arm(self, dx, dy) ==
  [self EXCEPT !.mouse_delta = <<self.mouse_delta[1] + dx,
                                 self.mouse_delta[2] + dy>>]

\* the DeviceEvent::MouseWheel arm, LineDelta payload
wheel_arm(self, delta_y) ==
  [self EXCEPT !.mouse_scroll_delta = self.mouse_scroll_delta + delta_y]

\* CameraController::process_event: the controller afterwards, the value
\* returned, and whether the call panicked (unwrap of a None keycode)
process_event(self, event) ==
  CASE event.kind = "Key" ->
         IF event.keycode = "None"
         THEN [self |-> self, ret |-> "none", panic |-> TRUE]
         ELSE [self |-> key_arm(self, event.keycode,
                                event.state = "Pressed"),
               ret |-> IF event.keycode \in BoundKeys
                       THEN "true" ELSE "false",
               panic |-> FALSE]
    [] event.kind = "MouseMotion" ->
         [self |-> motion_arm(self, event.dx, event.dy),
          ret |-> "true", panic |-> FALSE]
    [] event.kind = "MouseWheel" ->
         IF event.payload = "LineDelta"
         THEN [self |-> wheel_arm(self, event.dy),
               ret |-> "true", panic |-> FALSE]
         ELSE [self |-> self, ret |-> "false", panic |-> FALSE]
    [] OTHER -> [self |-> self, ret |-> "false", panic |-> FALSE]

\* update_camera, "Translation": move_dir before the vertical part
horizontal_dir(self, forward_dir, right_dir) ==
  LET m0 == vec3(0, 0, 0)
      m1 == IF self.is_forward_pressed THEN VAdd(m0, forward_dir) ELSE m0
      m2 == IF self.is_backward_pressed THEN VSub(m1, forward_dir) ELSE m1
      m3 == IF self.is_right_pressed THEN VAdd(m2, right_dir) ELSE m2
      m4 == IF self.is_left_pressed THEN VSub(m3, right_dir) ELSE m3
  IN  m4

\* move_dir without the normalization
move_dir_unnormalized(self, forward_dir, up_dir, right_dir) ==
  LET m4 == horizontal_dir(self, forward_dir, right_dir)
      m6 == IF self.is_up_pressed THEN VAdd(m4, up_dir) ELSE m4
      m7 == IF self.is_down_pressed THEN VSub(m6, up_dir) ELSE m6
  IN  m7

\* update_camera, "Translation": move_dir
move_dir(self, forward_dir, up_dir, right_dir) ==
  LET m4 == horizontal_dir(self, forward_dir, right_dir)
      m5 == IF length(m4) > LengthEps THEN normalize(m4) ELSE m4
      m6 == IF self.is_up_pressed THEN VAdd(m5, up_dir) ELSE m5
      m7 == IF self.is_down_pressed THEN VSub(m6, up_dir) ELSE m6
  IN  m7

\* update_camera, "Translation": camera.position afterwards
translation(self, cam) ==
  LET forward_dir == get_front(cam)
      up_dir == cam.world_up
      right_dir == cross(forward_dir, up_dir)
  IN  VAdd(cam.position,
           VScale(self.move_speed,
                  move_dir(self, forward_dir, up_dir, right_dir)))

\* update_camera, "Rotation": camera.yaw afterwards
rotation_yaw(self, cam) ==
  rem_f32(cam.yaw + self.mouse_sensitivity * self.mouse_delta[1], TwoPi)

\* rotation_pitch clamped from above only
rotation_pitch_no_lower(self, cam) ==
  LET p == cam.pitch - self.mouse_sensitivity * self.mouse_delta[2]
  IN  IF p > PitchLimit THEN PitchLimit ELSE p

\* update_camera, "Rotation": camera.pitch afterwards
rotation_pitch(self, cam) ==
  clamp(cam.pitch - self.mouse_sensitivity * self.mouse_delta[2],
        -PitchLimit, PitchLimit)

\* zooming clamped from above only
zooming_no_lower(self, cam) ==
  LET f == cam.fovy + self.zoom_sensitivity * self.mouse_scroll_delta
  IN  IF f > FovyMax THEN FovyMax ELSE f

\* update_camera, "Zooming": camera.fovy afterwards
zooming(self, cam) ==
  clamp(cam.fovy + self.zoom_sensitivity * self.mouse_scroll_delta,
        FovyMin, FovyMax)

\* drained without the reset of mouse_scroll_delta
drained_keeps_scroll(self) ==
  [self EXCEPT !.mouse_delta = <<0, 0>>]

\* drained that also clears the movement flags
drained_clears_flags(self) ==
  [self EXCEPT !.mouse_delta = <<0, 0>>, !.mouse_scroll_delta = 0,
               !.is_forward_pressed = FALSE, !.is_backward_pressed = FALSE,
               !.is_left_pressed = FALSE, !.is_right_pressed = FALSE,
               !.is_up_pressed = FALSE, !.is_down_pressed = FALSE]

\* update_camera: the controller afterwards (the two resets)
drained(self) ==
  [self EXCEPT !.mouse_delta = <<0, 0>>, !.mouse_scroll_delta = 0]

\* CameraController::update_camera: the controller and the camera afterwards
update_camera(self, cam) ==
  [self |-> drained(self),
   camera |-> [cam EXCEPT !.position = translation(self, cam),
                          !.yaw = rotation_yaw(self, cam),
                          !.pitch = rotation_pitch(self, cam),
                          !.fovy = zooming(self, cam)]]

-----------------------------------------------------------------------------
(* The program: one Camera and one CameraController, driven by the event   *)
(* loop, which calls process_event for every device event and              *)
(* update_camera once per frame.                                           *)
(*   last_event  the event of the last process_event call since the last   *)
(*               update_camera call (NoEvent when there was none)          *)
(*   returned    what the last call returned: "true" or "false" for        *)
(*               process_event, "none" for new and update_camera           *)
(*   panicked    process_event panicked; the program has stopped           *)
(*   calls       the number of process_event calls so far                  *)
(*   frame       the number of update_camera calls so far                  *)
(*   last_key    per bound key, the state of its most recent key event     *)
(*   motion_sum  the sum of the deltas of the MouseMotion events since     *)
(*               the last update_camera call                               *)
(*   scroll_sum  the sum of the vertical deltas of the LineDelta           *)
(*               MouseWheel events since the last update_camera call       *)

Origin == vec3(0, 0, 0)
UnitY == vec3(0, Scale, 0)

NoEvent ==
  [kind |-> "-", keycode |-> "-", state |-> "-",
   dx |-> 0, dy |-> 0, payload |-> "-"]

\* the state after Camera::new and CameraController::new with the
\* arguments of cfg
Constructed(cfg) ==
  /\ camera = Camera_new(Origin, UnitY, cfg.target, Scale, cfg.fovy,
                         Scale \div 10, 100 * Scale)
  /\ controller = CameraController_new(cfg.move_speed,
                                       cfg.mouse_sensitivity,
                                       cfg.zoom_sensitivity)
  /\ last_event = NoEvent
  /\ returned = "none"
  /\ panicked = FALSE
  /\ calls = 0
  /\ frame = 0
  /\ last_key = [k \in BoundKeys |-> "none"]
  /\ motion_sum = <<0, 0>>
  /\ scroll_sum = 0

\* the event loop passes the device event e to process_event
ProcessEvent(e) ==
  /\ ~panicked
  /\ calls < MaxEvents
  /\ LET r == process_event(controller, e)
     IN  /\ controller' = r.self
         /\ returned' = r.ret
         /\ panicked' = r.panic
  /\ last_event' = e
  /\ calls' = calls + 1
  /\ last_key' = IF e.kind = "Key" /\ e.keycode \in BoundKeys
                 THEN [last_key EXCEPT ![e.keycode] = e.state]
                 ELSE last_key
  /\ motion_sum' = IF e.kind = "MouseMotion"
                   THEN <<motion_sum[1] + e.dx, motion_sum[2] + e.dy>>
                   ELSE motion_sum
  /\ scroll_sum' = IF e.kind = "MouseWheel" /\ e.payload = "LineDelta"
                   THEN scroll_sum + e.dy
                   ELSE scroll_sum
  /\ UNCHANGED <<camera, frame>>

\* the event loop calls update_camera at the end of a frame
UpdateCamera ==
  /\ ~panicked
  /\ frame < MaxFrames
  /\ LET r == update_camera(controller, camera)
     IN  /\ controller' = r.self
         /\ camera' = r.camera
  /\ last_event' = NoEvent
  /\ returned' = "none"
  /\ frame' = frame + 1
  /\ motion_sum' = <<0, 0>>
  /\ scroll_sum' = 0
  /\ UNCHANGED <<panicked, calls, last_key>>

States == {"Pressed", "Released"}

Config(target, fovy, move_speed, mouse_sensitivity, zoom_sensitivity) ==
  [target |-> target, fovy |-> fovy, move_speed |-> move_speed,
   mouse_sensitivity |-> mouse_sensitivity,
   zoom_sensitivity |-> zoom_sensitivity]

(* The cameras and controllers explored: looking along +x with a fovy     *)
(* inside the zoom range, straight up with a fovy above it, and backwards  *)
(* and down with a fovy below it.                                          *)
Configs ==
  {Config(vec3(Scale, 0, 0), 45, Scale, 45, 60),
   Config(vec3(0, Scale, 0), 150, Scale, 45, 60),
   Config(vec3(-Scale, -Scale, 0), 0, Scale, 45, 60)}

(* The device events explored: every press and release of the six bound    *)
(* keys, an unbound key, a key without a virtual key code, mouse motions   *)
(* and wheel turns in both directions, a pixel-delta wheel turn and an     *)
(* event of another kind.                                                  *)
Events ==
  {Key(k, s) : k \in BoundKeys, s \in States}
    \cup {Key("Q", "Pressed"), Key("None", "Pressed")}
    \cup {MouseMotion(3, 1), MouseMotion(-3, -3)}
    \cup {MouseWheel("LineDelta", 0, 1), MouseWheel("LineDelta", 1, -2),
          MouseWheel("PixelDelta", 0, 1), Added}

Init == \E cfg \in Configs : Constructed(cfg)

Next == (\E e \in Events : ProcessEvent(e)) \/ UpdateCamera

Spec == Init /\ [][Next]_vars

-----------------------------------------------------------------------------
(* Properties.                                                             *)

\* the state right after an update_camera call
JustUpdated == frame > 0 /\ last_event = NoEvent

\* the step is an update_camera call
UpdateStep == frame' = frame + 1

\* the step is a process_event call
EventStep == calls' = calls + 1

\* C1: after every update_camera call camera.yaw lies in [0, 2*pi): it is
\* never negative and never 2*pi or more.
C1_YawWrapped == frame > 0 => (0 <= camera.yaw /\ camera.yaw < TwoPi)

\* C2: after every update_camera call camera.pitch lies in [-89, 89]
\* degrees, whatever the pitch was before (point_at included) and whatever
\* the accumulated mouse y delta is.
C2_PitchClamped ==
  frame > 0 => (-PitchLimit <= camera.pitch /\ camera.pitch <= PitchLimit)

\* an update_camera call has saturated the pitch at the lower limit
C2_Witness == frame > 0 /\ camera.pitch = -PitchLimit

\* C3: after every update_camera call camera.fovy lies in [1, 120] degrees,
\* whatever fovy the camera was constructed with and whatever the
\* accumulated scroll delta is.
C3_FovyClamped ==
  frame > 0 => (FovyMin <= camera.fovy /\ camera.fovy <= FovyMax)

\* an update_camera call has saturated the fovy at the lower limit
C3_Witness == frame > 0 /\ camera.fovy = FovyMin

\* C4: right after every update_camera call mouse_delta is (0, 0) and
\* mouse_scroll_delta is 0, and an update_camera call made in that state
\* (no event in between) leaves yaw, pitch and fovy as they are.
C4_Drained ==
  /\ [](JustUpdated => /\ controller.mouse_delta = <<0, 0>>
                       /\ controller.mouse_scroll_delta = 0)
  /\ [][(JustUpdated /\ UpdateStep) =>
          /\ camera'.yaw = camera.yaw
          /\ camera'.pitch = camera.pitch
          /\ camera'.fovy = camera.fovy]_vars

\* two update_camera calls in a row after events were processed
C4_Witness ==
  /\ frame >= 2
  /\ last_event = NoEvent
  /\ calls >= 2
  /\ controller.mouse_delta = <<0, 0>>
  /\ controller.mouse_scroll_delta = 0

\* C5: at every moment mouse_delta is the component-wise sum of the deltas
\* of the MouseMotion events, and mouse_scroll_delta the sum of the vertical
\* deltas of the LineDelta MouseWheel events, processed since the previous
\* update_camera call (or since construction); no other event changes them.
C5_Additive ==
  /\ controller.mouse_delta = motion_sum
  /\ controller.mouse_scroll_delta = scroll_sum

\* both mouse motions and then a key event were processed in one frame
C5_Witness ==
  /\ calls = 3
  /\ last_event.kind = "Key"
  /\ ~panicked
  /\ motion_sum = <<0, -2>>
  /\ controller.mouse_delta = <<0, -2>>

\* the movement flag of a bound key
Flag(self, k) ==
  CASE k = "W" -> self.is_forward_pressed
    [] k = "S" -> self.is_backward_pressed
    [] k = "A" -> self.is_left_pressed
    [] k = "D" -> self.is_right_pressed
    [] k = "Space" -> self.is_up_pressed
    [] k = "LControl" -> self.is_down_pressed

\* C6: a movement flag is true exactly when the most recent key event for
\* its key was a press (false if there was none or it was a release), and an
\* update_camera call made when no key's most recent event is a press does
\* not move the camera.
C6_LastStateWins ==
  /\ [](\A k \in BoundKeys :
          Flag(controller, k) <=> last_key[k] = "Pressed")
  /\ [][(UpdateStep /\ \A k \in BoundKeys : last_key[k] # "Pressed") =>
          camera'.position = camera.position]_vars

\* W was held during an update_camera call, then released, and another
\* update_camera call was made
C6_Witness ==
  /\ frame >= 2
  /\ last_event = NoEvent
  /\ last_key["W"] = "Released"
  /\ \A k \in BoundKeys \ {"W"} : last_key[k] = "none"
  /\ camera.position # Origin
  /\ ~controller.is_forward_pressed

\* C7: process_event never faults: on a key event without a virtual key
\* code it returns false.
C7_NoPanic ==
  last_event.keycode = "None" => (~panicked /\ returned = "false")

\* the events process_event is to recognise
Recognised(e) ==
  \/ e.kind = "Key" /\ e.keycode \in {"W", "S", "A", "D", "Space", "LControl"}
  \/ e.kind = "MouseMotion"
  \/ e.kind = "MouseWheel" /\ e.payload = "LineDelta"

\* C8: process_event returns true if and only if the event is a key event
\* for a bound key, a MouseMotion event or a LineDelta MouseWheel event, and
\* a call that returns false leaves the flags and the accumulators
\* unchanged.
C8_Recognition ==
  /\ [](last_event # NoEvent => (returned = "true" <=> Recognised(last_event)))
  /\ [][(EventStep /\ returned' = "false") => controller' = controller]_vars

\* a pixel-delta wheel event was refused while a flag was set and an
\* accumulator was non-zero
C8_Witness ==
  /\ returned = "false"
  /\ last_event.kind = "MouseWheel"
  /\ controller.mouse_scroll_delta # 0 \/ controller.mouse_delta # <<0, 0>>
  /\ \E k \in BoundKeys : Flag(controller, k)

Held(flag) == IF flag THEN 1 ELSE 0

VTimes(n, a) == <<n * a[1], n * a[2], n * a[3]>>

\* h of C9: the sum of +front/-front/+right/-right for the set flags
C9_h(self, cam) ==
  LET front == get_front(cam)
      right == cross(front, cam.world_up)
  IN  VAdd(VTimes(Held(self.is_forward_pressed)
                    - Held(self.is_backward_pressed), front),
           VTimes(Held(self.is_right_pressed)
                    - Held(self.is_left_pressed), right))

\* v of C9: +world_up/-world_up for the ascend/descend flags
C9_v(self, cam) ==
  VTimes(Held(self.is_up_pressed) - Held(self.is_down_pressed), cam.world_up)

\* C9: update_camera adds move_speed * (h' + v) to camera.position, with h'
\* the unit vector of h when length(h) > 0.001 and h otherwise; with forward
\* and right alone held and a level camera the displacement has length
\* move_speed (to the rounding of the arithmetic), and with opposing flags
\* held the horizontal displacement is zero.
C9_Displacement ==
  [][UpdateStep =>
       LET h == C9_h(controller, camera)
           hn == IF length(h) > LengthEps THEN normalize(h) ELSE h
           v == C9_v(controller, camera)
           d == VSub(camera'.position, camera.position)
       IN  /\ d = VScale(controller.move_speed, VAdd(hn, v))
           /\ ( /\ controller.is_forward_pressed
                /\ controller.is_right_pressed
                /\ ~controller.is_backward_pressed
                /\ ~controller.is_left_pressed
                /\ ~controller.is_up_pressed
                /\ ~controller.is_down_pressed
                /\ camera.pitch = 0 )
              => Abs(length(d) - controller.move_speed) <= 2
           /\ ( /\ controller.is_forward_pressed
                   = controller.is_backward_pressed
                /\ controller.is_left_pressed
                   = controller.is_right_pressed )
              => d = VScale(controller.move_speed, v)]_vars

\* one update_camera call with forward and right held, from the origin with
\* front (1, 0, 0) and right (0, 0, 1)
C9_Witness ==
  /\ frame = 1
  /\ controller.is_forward_pressed
  /\ controller.is_right_pressed
  /\ last_event = NoEvent
  /\ camera.position = <<7071, 0, 7071>>

Flags(self) ==
  <<self.is_forward_pressed, self.is_backward_pressed, self.is_left_pressed,
    self.is_right_pressed, self.is_up_pressed, self.is_down_pressed>>

\* C10: update_camera leaves the six movement flags, move_speed, the two
\* sensitivities and the camera's world_up, aspect, znear and zfar
\* unchanged, and a call made while forward alone is held moves the camera.
C10_FlagsPersist ==
  [][UpdateStep =>
       /\ Flags(controller') = Flags(controller)
       /\ controller'.move_speed = controller.move_speed
       /\ controller'.mouse_sensitivity = controller.mouse_sensitivity
       /\ controller'.zoom_sensitivity = controller.zoom_sensitivity
       /\ camera'.world_up = camera.world_up
       /\ camera'.aspect = camera.aspect
       /\ camera'.znear = camera.znear
       /\ camera'.zfar = camera.zfar
       /\ Flags(controller) = <<TRUE, FALSE, FALSE, FALSE, FALSE, FALSE>>
            => camera'.position # camera.position]_vars

\* W was pressed once and two update_camera calls moved the camera twice
C10_Witness ==
  /\ frame >= 2
  /\ calls = 1
  /\ controller.is_forward_pressed
  /\ camera.position = <<2 * Scale, 0, 0>>

====
